---- MODULE Spec2Model ----
(***************************************************************************)
(* css-structs: the four-layer parser Stylesheet -> CSSRule ->             *)
(* CSSDeclarationList -> CSSDeclaration and the Display serializers.       *)
(*                                                                         *)
(* A text is a sequence of characters.  A character is written as a        *)
(* one-element token: the printable ones as themselves, the others under   *)
(* a name ("NL" line feed, "TAB", "FF" form feed U+000C, "E9" the letter   *)
(* U+00E9, "A0" the no-break space U+00A0).                                *)
(*                                                                         *)
(* A nom IResult is a record [ok, rest, out, code]: on Ok, rest is the     *)
(* unconsumed input and out the value; on Err::Error, code is the nom      *)
(* ErrorKind and rest the input the failing parser was given.              *)
(***************************************************************************)
EXTENDS Integers, Sequences, FiniteSets, TLC

VARIABLES input, pc, op, res, obj, text, res2, written, removed

vars == <<input, pc, op, res, obj, text, res2, written, removed>>

---------------------------------------------------------------------------
(* Characters *)

Letters ==
  {"a", "b", "c", "d", "e", "g", "h", "i", "m", "p", "o", "r", "t", "n", "x",
   "A", "I", "M", "N", "O", "P", "R", "T"}

Alphabet ==
  Letters \cup {"1", "-", "_", " ", "NL", "TAB", "FF", ";", ":", "{", "}",
                "!", "@", ",", ">", ".", "E9", "A0"}

\* The Unicode scalar value of a character (char as u32).
CodePoint(c) ==
  CASE c = "TAB" -> 9
    [] c = "NL" -> 10
    [] c = "FF" -> 12
    [] c = " " -> 32
    [] c = "!" -> 33
    [] c = "," -> 44
    [] c = "-" -> 45
    [] c = "." -> 46
    [] c = "1" -> 49
    [] c = ":" -> 58
    [] c = ";" -> 59
    [] c = ">" -> 62
    [] c = "@" -> 64
    [] c = "A" -> 65
    [] c = "I" -> 73
    [] c = "M" -> 77
    [] c = "N" -> 78
    [] c = "O" -> 79
    [] c = "P" -> 80
    [] c = "R" -> 82
    [] c = "T" -> 84
    [] c = "_" -> 95
    [] c = "a" -> 97
    [] c = "b" -> 98
    [] c = "c" -> 99
    [] c = "d" -> 100
    [] c = "e" -> 101
    [] c = "g" -> 103
    [] c = "h" -> 104
    [] c = "i" -> 105
    [] c = "m" -> 109
    [] c = "n" -> 110
    [] c = "o" -> 111
    [] c = "p" -> 112
    [] c = "r" -> 114
    [] c = "t" -> 116
    [] c = "x" -> 120
    [] c = "{" -> 123
    [] c = "}" -> 125
    [] c = "A0" -> 160
    [] c = "E9" -> 233

\* helpers.rs: c as u32 > 127
is_non_ascii(c) == CodePoint(c) > 127

\* char::is_alphabetic, char::is_numeric, char::is_alphanumeric (std)
is_alphabetic(c) == c \in Letters \cup {"E9"}
is_numeric(c) == c = "1"
is_alphanumeric(c) == is_alphabetic(c) \/ is_numeric(c)

\* char::is_whitespace (std): the Unicode White_Space property, which
\* str::trim strips.
is_whitespace(c) == c \in {" ", "NL", "TAB", "FF", "A0"}

\* nom character::complete::multispace0 accepts ' ', '\t', '\r', '\n'.
is_multispace(c) == c \in {" ", "TAB", "NL"}

---------------------------------------------------------------------------
(* Text primitives *)

Drop(s, n) == SubSeq(s, n + 1, Len(s))
Take(s, n) == SubSeq(s, 1, n)

\* Length of the longest prefix of s whose characters are all in S.
PrefixLen(S, s) ==
  IF \A i \in 1..Len(s) : s[i] \in S
    THEN Len(s)
    ELSE (CHOOSE i \in 1..Len(s) :
            s[i] \notin S /\ \A j \in 1..(i - 1) : s[j] \in S) - 1

\* Length of the longest suffix of s whose characters are all in S.
SuffixLen(S, s) ==
  IF \A i \in 1..Len(s) : s[i] \in S
    THEN Len(s)
    ELSE Len(s) - (CHOOSE i \in 1..Len(s) :
            s[i] \notin S /\ \A j \in (i + 1)..Len(s) : s[j] \in S)

\* The concatenation of a sequence of texts.
RECURSIVE Flatten(_)
Flatten(ss) == IF ss = <<>> THEN <<>> ELSE ss[1] \o Flatten(Tail(ss))

WhiteSpace == {c \in Alphabet : is_whitespace(c)}
MultiSpace == {c \in Alphabet : is_multispace(c)}

\* str::trim
trim(s) ==
  LET a == PrefixLen(WhiteSpace, s)
      t == Drop(s, a)
  IN  Take(t, Len(t) - SuffixLen(WhiteSpace, t))

Ok(rest, out) == [ok |-> TRUE, rest |-> rest, out |-> out, code |-> "Ok"]
Error(at, kind) == [ok |-> FALSE, rest |-> at, out |-> <<>>, code |-> kind]

\* Sequencing of parsers: the `?` operator and nom's pair/preceded/
\* terminated, which hand the first error on and otherwise continue with
\* the first result.
AndThen(r, F(_)) == IF r.ok THEN F(r) ELSE r

\* A let binding.
Pipe(x, F(_)) == F(x)

\* Option<T>: None is <<>>, Some(x) is <<x>>.
None == <<>>
Some(x) == <<x>>
unwrap_or(o, default) == IF o = None THEN default ELSE o[1]

\* nom opt(p) on input s, r being p's result on s: never fails.
opt(r, s) == IF r.ok THEN Ok(r.rest, Some(r.out)) ELSE Ok(s, None)

\* nom multispace0: never fails.
multispace0(s) ==
  Pipe(PrefixLen(MultiSpace, s), LAMBDA n : Ok(Drop(s, n), Take(s, n)))

\* nom char(c)
char(c, s) ==
  IF Len(s) > 0 /\ s[1] = c THEN Ok(Drop(s, 1), c) ELSE Error(s, "Char")

\* nom tag(t)
tag(t, s) ==
  IF Len(s) >= Len(t) /\ Take(s, Len(t)) = t
    THEN Ok(Drop(s, Len(t)), t)
    ELSE Error(s, "Tag")

\* nom is_not(set): the longest non-empty prefix free of the set's characters.
is_not(set, s) ==
  Pipe(PrefixLen(Alphabet \ set, s), LAMBDA n :
    IF n = 0 THEN Error(s, "IsNot") ELSE Ok(Drop(s, n), Take(s, n)))

\* nom take_until("{"): the text before the first occurrence; the
\* occurrence itself is not consumed.
take_until(c, s) ==
  IF \E i \in 1..Len(s) : s[i] = c
    THEN Pipe(PrefixLen(Alphabet \ {c}, s), LAMBDA n : Ok(Drop(s, n), Take(s, n)))
    ELSE Error(s, "TakeUntil")

---------------------------------------------------------------------------
(* css_declaration.rs *)

IdentFirst ==
  {c \in Alphabet : is_alphabetic(c) \/ c = "_" \/ c = "-" \/ is_non_ascii(c)}
IdentRest ==
  {c \in Alphabet : is_alphanumeric(c) \/ c = "-" \/ c = "_" \/ is_non_ascii(c)}

\* Variant: a digit accepted as first character too.
parse_identifier_any_first(s) ==
  Pipe(PrefixLen(IdentRest, s), LAMBDA n :
    IF n = 0 THEN Error(s, "TakeWhile1") ELSE Ok(Drop(s, n), Take(s, n)))

\* recognize(pair(take_while1(first), take_while(rest)))
parse_identifier(s) ==
  Pipe(PrefixLen(IdentFirst, s), LAMBDA n1 :
    IF n1 = 0
      THEN Error(s, "TakeWhile1")
      ELSE Pipe(n1 + PrefixLen(IdentRest, Drop(s, n1)), LAMBDA n :
             Ok(Drop(s, n), Take(s, n))))

important_tag == <<"i", "m", "p", "o", "r", "t", "a", "n", "t">>

\* char::to_ascii_lowercase
to_ascii_lowercase(c) ==
  CASE c = "A" -> "a"
    [] c = "I" -> "i"
    [] c = "M" -> "m"
    [] c = "N" -> "n"
    [] c = "O" -> "o"
    [] c = "P" -> "p"
    [] c = "R" -> "r"
    [] c = "T" -> "t"
    [] OTHER -> c

\* Variant: the keyword matched without regard to case (tag_no_case).
important_marker_no_case(s) ==
  AndThen(tag(<<"!">>, multispace0(s).rest), LAMBDA bang :
    Pipe(multispace0(bang.rest).rest, LAMBDA t :
      IF /\ Len(t) >= Len(important_tag)
         /\ \A i \in 1..Len(important_tag) :
              to_ascii_lowercase(t[i]) = important_tag[i]
        THEN Ok(Drop(t, Len(important_tag)), Take(t, Len(important_tag)))
        ELSE Error(t, "Tag")))

\* Variant: no whitespace accepted between '!' and the keyword.
important_marker_tight(s) ==
  AndThen(tag(<<"!">>, multispace0(s).rest), LAMBDA bang :
    tag(important_tag, bang.rest))

\* preceded(multispace0, preceded(tag("!"), preceded(multispace0, tag("important"))))
important_marker(s) ==
  AndThen(tag(<<"!">>, multispace0(s).rest), LAMBDA bang :
    tag(important_tag, multispace0(bang.rest).rest))

\* Variant: the value kept as scanned, untrimmed.
value_text_untrimmed(s) == s

\* The value as parse_value stores it: s.trim().to_string()
value_text(s) == trim(s)

\* Variant: '!' is not among the characters that end the value text.
parse_value_bang(s) ==
  AndThen(is_not({";", "{", "}"}, s), LAMBDA v :
    Pipe(opt(important_marker(v.rest), v.rest), LAMBDA m :
      Ok(m.rest, <<value_text(v.out), m.out # None>>)))

\* pair(map(is_not(";{}!"), trim), opt(important_marker)), mapped to
\* (value, important.is_some())
parse_value(s) ==
  AndThen(is_not({";", "{", "}", "!"}, s), LAMBDA v :
    Pipe(opt(important_marker(v.rest), v.rest), LAMBDA m :
      Ok(m.rest, <<value_text(v.out), m.out # None>>)))

\* separated_pair(preceded(multispace0, parse_identifier),
\*                delimited(multispace0, char(':'), multispace0), parse_value)
parse_declaration(s) ==
  AndThen(parse_identifier(multispace0(s).rest), LAMBDA id :
    AndThen(char(":", multispace0(id.rest).rest), LAMBDA colon :
      AndThen(parse_value(multispace0(colon.rest).rest), LAMBDA val :
        Ok(val.rest, <<id.out, val.out>>))))

\* CSSDeclaration::new
CSSDeclaration_new(name, value, important) ==
  [name |-> name, value |-> value, important |-> unwrap_or(important, FALSE)]

\* Variant: one ';' after the declaration is consumed here.
CSSDeclaration_parse_semicolon(s) ==
  AndThen(parse_declaration(s), LAMBDA r :
    Ok(opt(char(";", r.rest), r.rest).rest,
       [name |-> r.out[1], value |-> r.out[2][1], important |-> r.out[2][2]]))

\* CSSDeclaration::parse
CSSDeclaration_parse(s) ==
  AndThen(parse_declaration(s), LAMBDA r :
    Ok(r.rest, [name |-> r.out[1], value |-> r.out[2][1],
                important |-> r.out[2][2]]))

\* A Result<T, String> made from an IResult by map_err and dropping the
\* remainder.
Result(r, message) ==
  IF r.ok
    THEN [ok |-> TRUE, out |-> r.out, err |-> ""]
    ELSE [ok |-> FALSE, out |-> <<>>, err |-> message]

\* CSSDeclaration::from_string
CSSDeclaration_from_string(s) ==
  Result(CSSDeclaration_parse(s), "Failed to parse CSS declaration")

\* impl Display for CSSDeclaration
CSSDeclaration_to_string(d) ==
  IF d.important
    THEN d.name \o <<":", " ">> \o d.value \o <<" ", "!">> \o important_tag \o <<";">>
    ELSE d.name \o <<":", " ">> \o d.value \o <<";">>

---------------------------------------------------------------------------
(* css_declaration_list.rs *)

\* One round of nom's many0, r being the parser's result on s: an error
\* ends the loop with what was gathered and the input s of that round; a
\* success that consumed nothing is Err(ErrorKind::Many0).
many0_step(s, acc, r, Continue(_, _)) ==
  IF ~r.ok THEN Ok(s, acc)
  ELSE IF Len(r.rest) = Len(s) THEN Error(s, "Many0")
  ELSE Continue(r.rest, Append(acc, r.out))

\* delimited(multispace0, char(';'), multispace0)
separator(s) ==
  AndThen(char(";", multispace0(s).rest), LAMBDA semi :
    Ok(multispace0(semi.rest).rest, semi.out))

\* many0(delimited(multispace0, char(';'), multispace0))
RECURSIVE many0_separator(_, _)
many0_separator(s, acc) ==
  many0_step(s, acc, separator(s), LAMBDA t, a : many0_separator(t, a))

\* Variant: the declaration of an item is optional, so that an item can
\* match without consuming anything.
list_item_optional(s) ==
  AndThen(many0_separator(s, <<>>), LAMBDA skipped :
    Pipe(opt(CSSDeclaration_parse(multispace0(skipped.rest).rest), skipped.rest),
         LAMBDA d : Ok(opt(char(";", d.rest), d.rest).rest, d.out)))

\* preceded(many0(separator), delimited(multispace0, CSSDeclaration::parse, opt(char(';'))))
list_item(s) ==
  AndThen(many0_separator(s, <<>>), LAMBDA skipped :
    AndThen(CSSDeclaration_parse(multispace0(skipped.rest).rest), LAMBDA d :
      Ok(opt(char(";", d.rest), d.rest).rest, d.out)))

\* many0(list_item)
RECURSIVE many0_list_item(_, _)
many0_list_item(s, acc) ==
  many0_step(s, acc, list_item(s), LAMBDA t, a : many0_list_item(t, a))

\* The declarations of ds, a later one replacing an earlier one of its name.
RECURSIVE last_of_each_name(_)
last_of_each_name(ds) ==
  IF ds = <<>> THEN <<>>
  ELSE IF \E i \in 2..Len(ds) : ds[i].name = ds[1].name
    THEN last_of_each_name(Tail(ds))
    ELSE <<ds[1]>> \o last_of_each_name(Tail(ds))

\* Variant: declarations gathered by name, duplicates merged.
parse_declarations_dedup(s) ==
  AndThen(many0_list_item(s, <<>>), LAMBDA r : Ok(r.rest, last_of_each_name(r.out)))

\* CSSDeclarationList::parse_declarations
parse_declarations(s) == many0_list_item(s, <<>>)

\* Variant: many1 in place of many0, an empty list is an error.
CSSDeclarationList_parse_many1(s) ==
  AndThen(parse_declarations(s), LAMBDA r :
    IF r.out = <<>>
      THEN Error(s, "Many1")
      ELSE Ok(r.rest, [declarations |-> r.out]))

\* Variant: the list parser stops after its first declaration.
CSSDeclarationList_parse_single(s) ==
  Pipe(opt(list_item(s), s), LAMBDA r :
    Ok(r.rest, [declarations |-> r.out]))

\* CSSDeclarationList::parse
CSSDeclarationList_parse(s) ==
  AndThen(parse_declarations(s), LAMBDA r : Ok(r.rest, [declarations |-> r.out]))

\* CSSDeclarationList::from_string
CSSDeclarationList_from_string(s) ==
  Result(CSSDeclarationList_parse(s), "Failed to parse CSS declarations list")

\* CSSDeclarationList::new
CSSDeclarationList_new == [declarations |-> <<>>]

\* Variant: only the first declaration of the name is removed.
RECURSIVE retain_other_first(_, _)
retain_other_first(ds, name) ==
  IF ds = <<>> THEN <<>>
  ELSE IF ds[1].name # name
    THEN <<ds[1]>> \o retain_other_first(Tail(ds), name)
    ELSE Tail(ds)

\* Vec::retain(|decl| decl.name != decl_name)
RECURSIVE retain_other(_, _)
retain_other(ds, name) ==
  IF ds = <<>> THEN <<>>
  ELSE IF ds[1].name # name
    THEN <<ds[1]>> \o retain_other(Tail(ds), name)
    ELSE retain_other(Tail(ds), name)

\* CSSDeclarationList::remove_declaration
remove_declaration(l, decl_name) ==
  [declarations |-> retain_other(l.declarations, decl_name)]

\* [String]::join(" ")
RECURSIVE join(_)
join(strs) ==
  IF strs = <<>> THEN <<>>
  ELSE IF Len(strs) = 1 THEN strs[1]
  ELSE strs[1] \o <<" ">> \o join(Tail(strs))

\* Variant: the declarations' texts put one after the other, unseparated.
CSSDeclarationList_to_string_unspaced(l) ==
  Flatten([i \in 1..Len(l.declarations) |->
             CSSDeclaration_to_string(l.declarations[i])])

\* impl Display for CSSDeclarationList
CSSDeclarationList_to_string(l) ==
  join([i \in 1..Len(l.declarations) |->
          CSSDeclaration_to_string(l.declarations[i])])

---------------------------------------------------------------------------
(* css_rule.rs *)

\* Variant: the selector scanned with is_not("{"), so that a text without
\* '{' fails at char('{').
parse_selector_is_not(s) ==
  AndThen(opt(is_not({"{"}, s), s), LAMBDA sel :
    AndThen(char("{", sel.rest), LAMBDA brace :
      Ok(brace.rest, trim(unwrap_or(sel.out, <<>>)))))

\* Variant: the selector kept as scanned, untrimmed.
parse_selector_untrimmed(s) ==
  AndThen(take_until("{", s), LAMBDA sel :
    AndThen(char("{", sel.rest), LAMBDA brace : Ok(brace.rest, sel.out)))

\* terminated(take_until("{"), char('{')), then trim
parse_selector(s) ==
  AndThen(take_until("{", s), LAMBDA sel :
    AndThen(char("{", sel.rest), LAMBDA brace :
      Ok(brace.rest, trim(sel.out))))

\* Variant: what the list parser leaves before the next '}' is skipped.
parse_declarations_block_skipping(s) ==
  AndThen(CSSDeclarationList_parse(multispace0(s).rest), LAMBDA l :
    AndThen(take_until("}", l.rest), LAMBDA skipped :
      AndThen(char("}", skipped.rest), LAMBDA close :
        Ok(close.rest, l.out))))

\* terminated(delimited(multispace0, CSSDeclarationList::parse, multispace0), char('}'))
parse_declarations_block(s) ==
  AndThen(CSSDeclarationList_parse(multispace0(s).rest), LAMBDA l :
    AndThen(char("}", multispace0(l.rest).rest), LAMBDA close :
      Ok(close.rest, l.out)))

\* CSSRule::parse
CSSRule_parse(s) ==
  AndThen(parse_selector(s), LAMBDA sel :
    AndThen(parse_declarations_block(sel.rest), LAMBDA block :
      Ok(block.rest, [selector |-> sel.out, declarations |-> block.out])))

\* Variant: text other than whitespace after the rule is an error.
CSSRule_from_string_strict(s) ==
  Result(AndThen(CSSRule_parse(s), LAMBDA r :
           IF trim(r.rest) = <<>> THEN r ELSE Error(r.rest, "Eof")),
         "Failed to parse CSS rule")

\* CSSRule::from_string
CSSRule_from_string(s) == Result(CSSRule_parse(s), "Failed to parse CSS rule")

\* CSSRule::new
CSSRule_new(selector, declarations) ==
  [selector |-> selector, declarations |-> declarations]

\* impl Display for CSSRule: "{} {{ {} }}"
CSSRule_to_string(r) ==
  r.selector \o <<" ", "{", " ">> \o CSSDeclarationList_to_string(r.declarations)
    \o <<" ", "}">>

---------------------------------------------------------------------------
(* stylesheet.rs *)

\* many0(CSSRule::parse)
RECURSIVE many0_rule(_, _)
many0_rule(s, acc) ==
  many0_step(s, acc, CSSRule_parse(s), LAMBDA t, a : many0_rule(t, a))

\* Stylesheet::parse
Stylesheet_parse(s) == many0_rule(s, <<>>)

\* Variant: the strict policy, unparsed text after the last rule is an error.
Stylesheet_from_string_strict(s) ==
  Result(AndThen(Stylesheet_parse(s), LAMBDA r :
           IF trim(r.rest) = <<>>
             THEN Ok(r.rest, [rules |-> r.out])
             ELSE Error(r.rest, "Eof")),
         "Failed to parse CSS")

\* Stylesheet::from_string
Stylesheet_from_string(s) ==
  Result(AndThen(Stylesheet_parse(s), LAMBDA r : Ok(r.rest, [rules |-> r.out])),
         "Failed to parse CSS")

\* Stylesheet::new
Stylesheet_new(rules) == [rules |-> IF rules = None THEN <<>> ELSE rules[1]]

\* impl Display for Stylesheet
Stylesheet_to_string(sh) ==
  join([i \in 1..Len(sh.rules) |-> CSSRule_to_string(sh.rules[i])])

---------------------------------------------------------------------------
(* The callers: a text is typed, handed to one entry point, the structure  *)
(* it returns is printed with Display and the printed text parsed again.   *)

MaxKeys == 4

\* What one keystroke appends: a character, or a pasted snippet.
Keys ==
  {"a", "1", " ", "FF", ",", ":", ";", "{", "}", "!", "important", "a:b"}

Chars(k) ==
  CASE k = "important" -> important_tag
    [] k = "a:b" -> <<"a", ":", "b">>
    [] OTHER -> <<k>>

NoResult == [ok |-> FALSE, rest |-> <<>>, out |-> <<>>, code |-> "None"]

Parsers ==
  {"CSSDeclaration::parse", "CSSDeclarationList::parse", "CSSRule::parse",
   "Stylesheet::parse"}

\* The parse entry point named by o, applied to s.
Apply(o, s) ==
  CASE o = "CSSDeclaration::parse" -> CSSDeclaration_parse(s)
    [] o = "CSSDeclarationList::parse" -> CSSDeclarationList_parse(s)
    [] o = "CSSRule::parse" -> CSSRule_parse(s)
    [] o = "Stylesheet::parse" ->
         AndThen(Stylesheet_parse(s), LAMBDA r : Ok(r.rest, [rules |-> r.out]))

\* to_string of the structure a layer produces.
Display(o, x) ==
  CASE o \in {"CSSDeclaration::parse", "CSSDeclaration::new"} ->
         CSSDeclaration_to_string(x)
    [] o \in {"CSSDeclarationList::parse", "CSSDeclarationList::from_string"} ->
         CSSDeclarationList_to_string(x)
    [] o = "CSSDeclaration::from_string" -> CSSDeclaration_to_string(x)
    [] o \in {"CSSRule::parse", "CSSRule::new", "CSSRule::from_string"} ->
         CSSRule_to_string(x)
    [] o \in {"Stylesheet::parse", "Stylesheet::from_string"} ->
         Stylesheet_to_string(x)

\* The parser that reads back what Display(o, _) printed.
Reader(o) ==
  CASE o = "CSSDeclaration::new" -> "CSSDeclaration::parse"
    [] o = "CSSDeclarationList::from_string" -> "CSSDeclarationList::parse"
    [] o = "CSSRule::new" -> "CSSRule::parse"
    [] o = "CSSRule::from_string" -> "CSSRule::parse"
    [] o = "CSSDeclaration::from_string" -> "CSSDeclaration::parse"
    [] o = "Stylesheet::from_string" -> "Stylesheet::parse"
    [] OTHER -> o

Init ==
  /\ input = <<>>
  /\ pc = "typing"
  /\ op = "none"
  /\ res = NoResult
  /\ obj = <<>>
  /\ text = <<>>
  /\ res2 = NoResult
  /\ written = <<>>
  /\ removed = <<>>

Type ==
  /\ pc = "typing"
  /\ Len(written) < MaxKeys
  /\ \E k \in Keys :
       /\ input' = input \o Chars(k)
       /\ written' = Append(written, k)
  /\ UNCHANGED <<pc, op, res, obj, text, res2, removed>>

\* What a call of the parse entry point o leaves behind.
Returned(o) ==
  /\ op' = o
  /\ res' = Apply(o, input)
  /\ obj' = IF res'.ok THEN res'.out ELSE obj
  /\ pc' = "returned"

Call_CSSDeclaration_parse ==
  /\ pc = "typing"
  /\ Returned("CSSDeclaration::parse")
  /\ UNCHANGED <<input, text, res2, written, removed>>

Call_CSSDeclarationList_parse ==
  /\ pc = "typing"
  /\ Returned("CSSDeclarationList::parse")
  /\ UNCHANGED <<input, text, res2, written, removed>>

Call_CSSRule_parse ==
  /\ pc = "typing"
  /\ Returned("CSSRule::parse")
  /\ UNCHANGED <<input, text, res2, written, removed>>

Call_Stylesheet_parse ==
  /\ pc = "typing"
  /\ Returned("Stylesheet::parse")
  /\ UNCHANGED <<input, text, res2, written, removed>>

Call_Stylesheet_from_string ==
  /\ pc = "typing"
  /\ op' = "Stylesheet::from_string"
  /\ res' = Pipe(Stylesheet_from_string(input), LAMBDA r :
               [ok |-> r.ok, rest |-> <<>>, out |-> r.out, code |-> r.err])
  /\ obj' = IF res'.ok THEN res'.out ELSE obj
  /\ pc' = "returned"
  /\ UNCHANGED <<input, text, res2, written, removed>>

\* A Result<T, String> as a call leaves it: no remainder comes with it.
Returned_from_string(o, r) ==
  /\ op' = o
  /\ res' = [ok |-> r.ok, rest |-> <<>>, out |-> r.out, code |-> r.err]
  /\ obj' = IF res'.ok THEN res'.out ELSE obj
  /\ pc' = "returned"

Call_CSSDeclaration_from_string ==
  /\ pc = "typing"
  /\ Returned_from_string("CSSDeclaration::from_string",
                          CSSDeclaration_from_string(input))
  /\ UNCHANGED <<input, text, res2, written, removed>>

Call_CSSDeclarationList_from_string ==
  /\ pc = "typing"
  /\ op' = "CSSDeclarationList::from_string"
  /\ res' = Pipe(CSSDeclarationList_from_string(input), LAMBDA r :
               [ok |-> r.ok, rest |-> <<>>, out |-> r.out, code |-> r.err])
  /\ obj' = IF res'.ok THEN res'.out ELSE obj
  /\ pc' = "returned"
  /\ UNCHANGED <<input, text, res2, written, removed>>

Call_CSSRule_from_string ==
  /\ pc = "typing"
  /\ Returned_from_string("CSSRule::from_string", CSSRule_from_string(input))
  /\ UNCHANGED <<input, text, res2, written, removed>>

\* The caller hands the remainder of a parse to the same parser again.
Call_on_remainder ==
  /\ pc = "returned"
  /\ op \in Parsers
  /\ res.ok
  /\ res2' = Apply(op, res.rest)
  /\ pc' = "continued"
  /\ UNCHANGED <<input, op, res, obj, text, written, removed>>

Call_to_string ==
  /\ pc \in {"returned", "built", "removed"}
  /\ pc = "returned" => res.ok
  /\ text' = Display(op, obj)
  /\ pc' = "printed"
  /\ UNCHANGED <<input, op, res, obj, res2, written, removed>>

Reparse ==
  /\ pc = "printed"
  /\ res2' = Apply(Reader(op), text)
  /\ pc' = "reparsed"
  /\ UNCHANGED <<input, op, res, obj, text, written, removed>>

Next ==
  \/ Type
  \/ Call_CSSDeclaration_parse
  \/ Call_CSSDeclarationList_parse
  \/ Call_CSSRule_parse
  \/ Call_Stylesheet_parse
  \/ Call_Stylesheet_from_string
  \/ Call_CSSDeclaration_from_string
  \/ Call_CSSDeclarationList_from_string
  \/ Call_CSSRule_from_string
  \/ Call_on_remainder
  \/ Call_to_string
  \/ Reparse

Spec == Init /\ [][Next]_vars

---------------------------------------------------------------------------
(* Declarations: built with new, or written out piece by piece.            *)

MaxValueLen == 3
MaxGap == 2

\* All texts of at most n characters of S.
RECURSIVE TextsUpTo(_, _)
TextsUpTo(S, n) ==
  IF n = 0 THEN {<<>>}
  ELSE TextsUpTo(S, n - 1) \cup
       {Append(t, c) : t \in {u \in TextsUpTo(S, n - 1) : Len(u) = n - 1}, c \in S}

Names ==
  {<<"a">>, <<"-", "a", "1">>, <<"E9", "_">>, <<"A0">>, <<"1", "a">>, <<"a", " ">>}

Values == TextsUpTo({"a", "1", " ", "FF", ":", "!", ";"}, MaxValueLen)

New ==
  /\ pc = "typing"
  /\ written = <<>>
  /\ \E name \in Names, value \in Values,
        important \in {None, Some(FALSE), Some(TRUE)} :
       obj' = CSSDeclaration_new(name, value, important)
  /\ op' = "CSSDeclaration::new"
  /\ pc' = "built"
  /\ UNCHANGED <<input, res, text, res2, written, removed>>

Gaps == TextsUpTo({" ", "NL", "TAB"}, MaxGap)

Tails ==
  { <<>>, <<";">>, <<" ", ";">>, <<"}">>, <<"!", "i", "m">>, <<"x">>,
    <<"!", "I", "M", "P", "O", "R", "T", "A", "N", "T">> }

\* A declaration as a writer may lay it out: name, colon, value, and after
\* the value either nothing or the importance marker, then what follows.
WriteDeclaration ==
  /\ pc = "typing"
  /\ written = <<>>
  /\ \E lead \in {<<>>, <<" ">>}, value \in {<<"a">>, <<"a", " ", "1">>},
        gap1 \in Gaps, gap2 \in Gaps, marker \in BOOLEAN, tail \in Tails :
       /\ ~marker => gap2 = <<>>
       /\ input' = lead \o <<"b", ":">> \o lead \o value \o gap1
                     \o (IF marker THEN <<"!">> \o gap2 \o important_tag ELSE <<>>)
                     \o tail
       /\ written' = <<[name |-> <<"b">>, value |-> value, marker |-> marker,
                        gap1 |-> gap1, gap2 |-> gap2, tail |-> tail]>>
  /\ UNCHANGED <<pc, op, res, obj, text, res2, removed>>

NextDecl ==
  \/ New
  \/ WriteDeclaration
  \/ Call_CSSDeclaration_parse
  \/ Call_CSSDeclarationList_parse
  \/ Call_to_string
  \/ Reparse

SpecDecl == Init /\ [][NextDecl]_vars

---------------------------------------------------------------------------
(* Rules and stylesheets written out from their parts in a few layouts.    *)

MaxRules == 2

Plain == [name |-> <<"a">>, value |-> <<"b">>, important |-> FALSE]
Marked == [name |-> <<"b">>, value |-> <<"a", " ", "1">>, important |-> TRUE]

DeclLists == {<<>>, <<Plain>>, <<Marked>>, <<Plain, Marked>>, <<Marked, Plain>>}

Selectors == {<<"a">>, <<".", "a", ",", " ", "b">>}

Layouts ==
  { [id |-> "compact", colon |-> <<":">>, bang |-> <<"!">> \o important_tag,
     sep |-> <<";">>, last |-> <<>>, open |-> <<"{">>, close |-> <<"}">>],
    [id |-> "canonical", colon |-> <<":", " ">>,
     bang |-> <<" ", "!">> \o important_tag,
     sep |-> <<";", " ">>, last |-> <<";">>, open |-> <<" ", "{", " ">>,
     close |-> <<" ", "}">>],
    [id |-> "spaced", colon |-> <<" ", ":", " ">>,
     bang |-> <<" ", "!", " ">> \o important_tag,
     sep |-> <<" ", ";", " ">>, last |-> <<" ", ";">>,
     open |-> <<" ", "{", " ">>, close |-> <<" ", "}">>],
    [id |-> "lines", colon |-> <<":", " ">>,
     bang |-> <<" ", "!">> \o important_tag,
     sep |-> <<";", "NL", "TAB">>, last |-> <<";">>,
     open |-> <<" ", "{", "NL", "TAB">>, close |-> <<"NL", "}">>] }

\* Where a surplus ';' is put in a declaration list.
Strays == {"none", "before", "between", "after"}

DeclText(d, lay) ==
  d.name \o lay.colon \o d.value \o (IF d.important THEN lay.bang ELSE <<>>)

\* The text of a declaration list in a layout, with a surplus ';' at the
\* given place.
BlockText(ds, lay, stray) ==
  (IF stray = "before" THEN <<";">> ELSE <<>>)
  \o Flatten([i \in 1..Len(ds) |->
       DeclText(ds[i], lay)
       \o (IF i < Len(ds)
             THEN lay.sep \o (IF stray = "between" THEN <<";">> ELSE <<>>)
             ELSE IF stray = "after" /\ lay.last = <<>> THEN <<";">>
             ELSE lay.last)])
  \o (IF stray = "after" THEN <<";">> ELSE <<>>)

RuleText(sel, ds, lay, stray) ==
  sel \o lay.open \o BlockText(ds, lay, stray) \o lay.close

WriteDeclarations ==
  /\ pc = "typing"
  /\ written = <<>>
  /\ input = <<>>
  /\ \E ds \in DeclLists, lay \in Layouts, stray \in Strays :
       /\ input' = BlockText(ds, lay, stray)
       /\ written' = <<[kind |-> "list", selector |-> <<>>, declarations |-> ds,
                        layout |-> lay.id, stray |-> stray]>>
  /\ UNCHANGED <<pc, op, res, obj, text, res2, removed>>

WriteRule ==
  /\ pc = "typing"
  /\ Len(written) < MaxRules
  /\ \A i \in 1..Len(written) :
       written[i].kind = "rule" /\ written[i].stray = "none"
  /\ \E lead \in {<<>>, <<"NL", " ">>}, sel \in Selectors, ds \in DeclLists,
        lay \in Layouts, stray \in Strays :
       /\ stray # "none" => written = <<>>
       /\ input' = input \o lead \o RuleText(sel, ds, lay, stray)
       /\ written' = Append(written,
                       [kind |-> "rule", selector |-> sel, declarations |-> ds,
                        layout |-> lay.id, stray |-> stray])
  /\ UNCHANGED <<pc, op, res, obj, text, res2, removed>>

\* Whitespace after the last rule.
WriteBlank ==
  /\ pc = "typing"
  /\ written # <<>>
  /\ input # <<>>
  /\ ~is_whitespace(input[Len(input)])
  /\ input' = input \o <<"NL", "TAB">>
  /\ UNCHANGED <<pc, op, res, obj, text, res2, written, removed>>

NextSheet ==
  \/ WriteDeclarations
  \/ WriteRule
  \/ WriteBlank
  \/ Call_CSSDeclarationList_parse
  \/ Call_CSSRule_parse
  \/ Call_Stylesheet_from_string

SpecSheet == Init /\ [][NextSheet]_vars

---------------------------------------------------------------------------
(* Declaration lists: written out, parsed, edited with remove_declaration   *)
(* and put into a rule with CSSRule::new.                                   *)

MaxDecls == 3
MaxRemovals == 2

Again == [name |-> <<"a">>, value |-> <<"1">>, important |-> TRUE]
Padding ==
  [name |-> <<"p", "a", "d", "d", "i", "n", "g">>, value |-> <<"1", "e", "m">>,
   important |-> FALSE]

Pool == {Plain, Marked, Again, Padding}

\* The layouts of a rule, and the one of the documentation's examples:
\* "color: red; margin: 10px", no ';' after the last declaration.
ListLayouts ==
  Layouts \cup
  { [id |-> "plain", colon |-> <<":", " ">>, bang |-> <<" ", "!">> \o important_tag,
     sep |-> <<";", " ">>, last |-> <<>>, open |-> <<" ", "{", " ">>,
     close |-> <<" ", "}">>] }

\* Texts that are no declaration: a name that starts with a digit, a name
\* without ':', and values that are empty or whitespace.
Malformed ==
  { <<"1", "x", ":", "b">>, <<"x", " ", "b">>, <<"x", ":">>, <<"x", ":", " ">>,
    <<"x", ":", "FF">> }

\* The text of the declarations ds, each followed by a separator, and then
\* the text bad; without bad, the text of the list.
ListText(ds, lay, bad) ==
  IF bad = <<>>
    THEN BlockText(ds, lay, "none")
    ELSE Flatten([i \in 1..Len(ds) |-> DeclText(ds[i], lay) \o lay.sep]) \o bad

\* A declaration list as it stands alone, or the inside of a block up to
\* its '}' with a malformed declaration at its end, or a rule with such a
\* block.
WriteList ==
  /\ pc = "typing"
  /\ written = <<>>
  /\ input = <<>>
  /\ \E ds \in TextsUpTo(Pool, MaxDecls), lay \in ListLayouts,
        bad \in Malformed \cup {<<>>}, kind \in {"list", "rule"} :
       /\ kind = "rule" => bad # <<>>
       /\ input' = (IF kind = "rule" THEN <<"a">> \o lay.open ELSE <<>>)
                     \o ListText(ds, lay, bad)
                     \o (IF bad # <<>> THEN lay.close ELSE <<>>)
       /\ written' = <<[kind |-> kind, declarations |-> ds, layout |-> lay.id,
                        bad |-> bad, close |-> lay.close]>>
  /\ UNCHANGED <<pc, op, res, obj, text, res2, removed>>

ListOps == {"CSSDeclarationList::parse", "CSSDeclarationList::from_string"}

\* The names a caller asks to remove: two that occur, one that does not,
\* and a proper prefix of one that occurs.
RemovedNames == {<<"a">>, <<"b">>, <<"c">>, <<"p">>}

\* list.remove_declaration(name) on the list that was parsed
Call_remove_declaration ==
  /\ pc \in {"returned", "removed"}
  /\ op \in ListOps
  /\ res.ok
  /\ written # <<>>
  /\ written[1].bad = <<>>
  /\ Len(removed) < MaxRemovals
  /\ \E name \in RemovedNames :
       /\ obj' = remove_declaration(obj, name)
       /\ removed' = Append(removed, name)
  /\ pc' = "removed"
  /\ UNCHANGED <<input, op, res, text, res2, written>>

\* CSSRule::new(selector, &list) with the list that was parsed
Call_CSSRule_new ==
  /\ pc = "returned"
  /\ op \in ListOps
  /\ res.ok
  /\ written # <<>>
  /\ written[1].bad = <<>>
  /\ \E selector \in {<<"h", "1">>, <<"a">>} :
       obj' = CSSRule_new(selector, obj)
  /\ op' = "CSSRule::new"
  /\ pc' = "built"
  /\ UNCHANGED <<input, res, text, res2, written, removed>>

NextList ==
  \/ WriteList
  \/ Call_CSSDeclarationList_parse
  \/ Call_CSSDeclarationList_from_string
  \/ Call_CSSRule_parse
  \/ Call_remove_declaration
  \/ Call_CSSRule_new
  \/ Call_to_string

SpecList == Init /\ [][NextList]_vars

---------------------------------------------------------------------------
(* Properties *)

\* Every declaration of a structure of the layer that o parses.
DeclarationsOf(o, x) ==
  CASE o = "CSSDeclaration::parse" -> <<x>>
    [] o = "CSSDeclarationList::parse" -> x.declarations
    [] o = "CSSRule::parse" -> x.declarations.declarations
    [] o = "Stylesheet::parse" ->
         Flatten([i \in 1..Len(x.rules) |-> x.rules[i].declarations.declarations])

\* The identifier grammar: a first character that is alphabetic, '_', '-'
\* or non-ASCII, then any number of those or digits.
IsIdentifier(name) ==
  /\ name # <<>>
  /\ is_alphabetic(name[1]) \/ name[1] \in {"_", "-"} \/ CodePoint(name[1]) > 127
  /\ \A i \in 2..Len(name) :
       \/ is_alphabetic(name[i]) \/ is_numeric(name[i])
       \/ name[i] \in {"_", "-"} \/ CodePoint(name[i]) > 127

\* A value the round trip is claimed for: not empty, and free of the
\* characters that end a value.
IsPlainValue(value) ==
  /\ value # <<>>
  /\ \A i \in 1..Len(value) : value[i] \notin {";", "{", "}", "!"}

\* C1 as stated: for every identifier name, every non-empty value without
\* ';', '{', '}', '!' and either flag, the text printed from
\* Declaration{name, value, important} parses, to an equal declaration.
C1_RoundTrip ==
  (/\ pc = "reparsed"
   /\ op = "CSSDeclaration::new"
   /\ IsIdentifier(obj.name)
   /\ IsPlainValue(obj.value))
    => (res2.ok /\ res2.out = obj)

\* C1 as amended: the same for the values that neither start nor end with
\* a whitespace character.
C1_RoundTripTrimmed ==
  (/\ pc = "reparsed"
   /\ op = "CSSDeclaration::new"
   /\ IsIdentifier(obj.name)
   /\ IsPlainValue(obj.value)
   /\ ~is_whitespace(obj.value[1])
   /\ ~is_whitespace(obj.value[Len(obj.value)]))
    => (res2.ok /\ res2.out = obj)

\* C1 witness: an important declaration whose value has whitespace inside
\* was printed and parsed back to itself.
C1_Witness ==
  /\ pc = "reparsed"
  /\ op = "CSSDeclaration::new"
  /\ IsIdentifier(obj.name)
  /\ obj.important
  /\ Len(obj.value) = 3
  /\ obj.value[2] = " "
  /\ res2.ok
  /\ res2.out = obj

\* C2: for every text that parses at a layer, the text printed from the
\* parsed structure parses again, to an equal structure:
\* parse(serialize(parse(x))) = parse(x).
C2_ParsePrintParse ==
  (pc = "reparsed" /\ op \in Parsers) => (res2.ok /\ res2.out = res.out)

\* The same, for the structures in which no declaration has an empty value.
C2_ParsePrintParse_NonEmptyValues ==
  (/\ pc = "reparsed"
   /\ op \in Parsers
   /\ \A i \in 1..Len(DeclarationsOf(op, res.out)) :
        DeclarationsOf(op, res.out)[i].value # <<>>)
    => (res2.ok /\ res2.out = res.out)

\* The input left after i rules have been parsed from s, one at a time.
RECURSIVE AfterRules(_, _)
AfterRules(s, i) ==
  IF i = 0 THEN s ELSE CSSRule_parse(AfterRules(s, i - 1)).rest

Contains(s, c) == \E i \in 1..Len(s) : s[i] = c

\* C5: from_string applied to a text whose rule block is never closed (a
\* '{' and no '}') reports a failure.
C5_UnclosedBlockFails ==
  (/\ pc = "returned"
   /\ op = "Stylesheet::from_string"
   /\ Contains(input, "{")
   /\ ~Contains(input, "}"))
    => ~res.ok

\* C6: DeclarationList parsing is total.  Every text gives a result; when
\* no declaration was matched the list is empty and the remainder is the
\* whole input, so the empty text gives the empty remainder and a text of
\* whitespace is handed back whole.
C6_ListTotal ==
  (pc = "returned" /\ op = "CSSDeclarationList::parse") =>
    /\ res.ok
    /\ (res.out.declarations = <<>> => res.rest = input)
    /\ ((\A i \in 1..Len(input) : is_whitespace(input[i])) =>
          (res.out.declarations = <<>> /\ res.rest = input))

\* C6 witness: a text of separators and whitespace, with no declaration,
\* was parsed.
C6_Witness ==
  /\ pc = "returned"
  /\ op = "CSSDeclarationList::parse"
  /\ res.ok
  /\ res.out.declarations = <<>>
  /\ Contains(input, ";")
  /\ Contains(input, " ")

\* Position of the first c in s at or after position from; 0 when none.
IndexFrom(s, c, from) ==
  IF \E i \in from..Len(s) : s[i] = c
    THEN CHOOSE i \in from..Len(s) :
           s[i] = c /\ \A j \in from..(i - 1) : s[j] # c
    ELSE 0

\* C8: when rule parsing succeeds, the selector is the text before the
\* first '{' without its surrounding whitespace and otherwise untouched,
\* and the remainder is the input after the '}' that closes the block,
\* the first '}' after that '{'.
C8_SelectorAndRemainder ==
  (pc = "returned" /\ op = "CSSRule::parse" /\ res.ok) =>
    LET open == IndexFrom(input, "{", 1)
        close == IndexFrom(input, "}", open + 1)
    IN  /\ open > 0
        /\ close > 0
        /\ res.out.selector = trim(Take(input, open - 1))
        /\ res.rest = Drop(input, close)

\* C8 witness: a rule was parsed whose selector text had whitespace before
\* or after it and a comma inside it.
C8_Witness ==
  /\ pc = "returned"
  /\ op = "CSSRule::parse"
  /\ res.ok
  /\ Contains(res.out.selector, ",")
  /\ res.out.selector # Take(input, IndexFrom(input, "{", 1) - 1)

\* The error kinds of rule parsing, as nom reports them.
UnterminatedSelector == "TakeUntil"
UnterminatedBlock == "Char"

\* What follows the declaration list and the whitespace after it, in the
\* block that starts after the first '{' of s.
AfterDeclarations(s) ==
  multispace0(
    CSSDeclarationList_parse(
      multispace0(Drop(s, IndexFrom(s, "{", 1))).rest).rest).rest

\* C9: rule parsing fails with UnterminatedSelector when the text has no
\* '{', and with UnterminatedBlock when no '}' follows the declaration
\* list and the whitespace after it; it fails in no other way, and the two
\* kinds differ.
C9_ErrorKinds ==
  (pc = "returned" /\ op = "CSSRule::parse") =>
    /\ UnterminatedSelector # UnterminatedBlock
    /\ ~Contains(input, "{") => (~res.ok /\ res.code = UnterminatedSelector)
    /\ (Contains(input, "{") /\ ~char("}", AfterDeclarations(input)).ok)
         => (~res.ok /\ res.code = UnterminatedBlock)
    /\ ~res.ok => \/ (res.code = UnterminatedSelector /\ ~Contains(input, "{"))
                  \/ (res.code = UnterminatedBlock /\ Contains(input, "{"))

\* C9 witness: rule parsing failed on an unclosed block that holds a
\* declaration.
C9_Witness ==
  /\ pc = "returned"
  /\ op = "CSSRule::parse"
  /\ ~res.ok
  /\ res.code = UnterminatedBlock
  /\ Contains(input, "{")
  /\ Contains(input, "b")
  /\ ~Contains(input, "}")

\* The rules a written text was laid out from, as structures.
WrittenRules ==
  [i \in 1..Len(written) |->
     CSSRule_new(written[i].selector, [declarations |-> written[i].declarations])]

WellFormedRulesWritten ==
  /\ written # <<>>
  /\ \A i \in 1..Len(written) :
       written[i].kind = "rule" /\ written[i].stray = "none"

\* C3: a text of well-formed rules with whitespace between them parses to
\* one rule per written rule, in order, each with its selector and its
\* declarations.
C3_OneRulePerSourceRule ==
  (/\ pc = "returned"
   /\ op = "Stylesheet::from_string"
   /\ WellFormedRulesWritten)
    => (res.ok /\ res.out.rules = WrittenRules)

\* The same, leaving out the rules whose last declaration is marked
\* important and has whitespace before its ';'.
C3_OneRulePerSourceRule_Elsewhere ==
  (/\ pc = "returned"
   /\ op = "Stylesheet::from_string"
   /\ WellFormedRulesWritten
   /\ \A i \in 1..Len(written) :
        ~(/\ written[i].layout = "spaced"
          /\ written[i].declarations # <<>>
          /\ written[i].declarations[Len(written[i].declarations)].important))
    => (res.ok /\ res.out.rules = WrittenRules)

\* C7: surplus ';' separators before the first declaration, between two
\* declarations and after the last one are skipped: the list parser
\* returns the declarations of the text without them, and a rule whose
\* block holds them parses.
C7_StraySeparators ==
  /\ (/\ pc = "returned"
      /\ op = "CSSDeclarationList::parse"
      /\ Len(written) = 1
      /\ written[1].kind = "list")
       => (res.ok /\ res.out.declarations = written[1].declarations)
  /\ (/\ pc = "returned"
      /\ op = "CSSRule::parse"
      /\ Len(written) = 1
      /\ written[1].kind = "rule"
      /\ written[1].stray # "none")
       => (res.ok /\ res.out = WrittenRules[1])

\* The part of C7 about the list parser alone.
C7_StraySeparators_ListOnly ==
  (/\ pc = "returned"
   /\ op = "CSSDeclarationList::parse"
   /\ Len(written) = 1
   /\ written[1].kind = "list")
    => (res.ok /\ res.out.declarations = written[1].declarations)

\* C10: a value followed by optional whitespace, '!', optional whitespace
\* and 'important' gives important = TRUE, the value without the marker
\* and the whitespace before it, and a remainder that starts after the
\* marker; a value not followed by the marker gives important = FALSE.
C10_ImportantMarker ==
  (pc = "returned" /\ op = "CSSDeclaration::parse" /\ written # <<>>) =>
    /\ res.ok
    /\ res.out.name = written[1].name
    /\ res.out.important = written[1].marker
    /\ written[1].marker =>
         (res.out.value = written[1].value /\ res.rest = written[1].tail)

\* C10 witness: a marker with whitespace on both sides of '!' was parsed.
C10_Witness ==
  /\ pc = "returned"
  /\ op = "CSSDeclaration::parse"
  /\ written # <<>>
  /\ written[1].marker
  /\ Len(written[1].gap1) = 2
  /\ Len(written[1].gap2) = 2
  /\ written[1].tail = <<" ", ";">>
  /\ res.ok
  /\ res.out.important

\* C11: a '!' after the value that does not start the importance marker
\* stays in the value, with the text after it up to the next ';', '{' or
\* '}', and important = FALSE.
C11_BangRetained ==
  (/\ pc = "returned"
   /\ op = "CSSDeclaration::parse"
   /\ written # <<>>
   /\ ~written[1].marker
   /\ written[1].tail = <<"!", "i", "m">>)
    => /\ res.ok
       /\ ~res.out.important
       /\ res.out.value = written[1].value \o written[1].gap1 \o written[1].tail
       /\ res.rest = <<>>

\* The longest prefix of s that is an identifier; empty when there is none.
LongestIdentifier(s) ==
  IF \E n \in 1..Len(s) : IsIdentifier(Take(s, n))
    THEN Take(s, CHOOSE n \in 1..Len(s) :
                   /\ IsIdentifier(Take(s, n))
                   /\ \A m \in (n + 1)..Len(s) : ~IsIdentifier(Take(s, m)))
    ELSE <<>>

\* s without the spaces, tabs and line breaks it starts with.
SkipSpace(s) ==
  IF \E i \in 1..Len(s) : s[i] \notin {" ", "TAB", "NL"}
    THEN Drop(s, (CHOOSE i \in 1..Len(s) :
                    /\ s[i] \notin {" ", "TAB", "NL"}
                    /\ \A j \in 1..(i - 1) : s[j] \in {" ", "TAB", "NL"}) - 1)
    ELSE <<>>

\* C12: the name of a parsed declaration is the longest identifier at the
\* start of the text after its leading whitespace; parsing fails when no
\* identifier starts there, and when the identifier is not followed, after
\* optional whitespace, by ':'.
C12_IdentifierGrammar ==
  (pc = "returned" /\ op = "CSSDeclaration::parse") =>
    LET id == LongestIdentifier(SkipSpace(input))
        after == SkipSpace(Drop(SkipSpace(input), Len(id)))
    IN  /\ res.ok => (id # <<>> /\ res.out.name = id)
        /\ id = <<>> => ~res.ok
        /\ (after = <<>> \/ after[1] # ":") => ~res.ok

\* C12 witness: a declaration was parsed whose text starts with whitespace
\* and whose name has a digit after its first character.
C12_Witness ==
  /\ pc = "returned"
  /\ op = "CSSDeclaration::parse"
  /\ res.ok
  /\ input[1] = " "
  /\ Contains(Tail(res.out.name), "1")

\* C13: a declaration whose value is empty is not accepted, so every
\* declaration that any parse entry point returns has a name and a value
\* that are not empty.
C13_NoEmptyValue ==
  (pc = "returned" /\ op \in Parsers /\ res.ok) =>
    \A i \in 1..Len(DeclarationsOf(op, res.out)) :
      /\ DeclarationsOf(op, res.out)[i].name # <<>>
      /\ DeclarationsOf(op, res.out)[i].value # <<>>

\* The same, for the name alone.
C13_NoEmptyName ==
  (pc = "returned" /\ op \in Parsers /\ res.ok) =>
    \A i \in 1..Len(DeclarationsOf(op, res.out)) :
      DeclarationsOf(op, res.out)[i].name # <<>>

\* C20 as stated: a ';' that directly follows the declaration is consumed
\* by Declaration.parse and is not in the remainder; without a ';' the
\* parse succeeds too.
C20_SemicolonConsumed ==
  (/\ pc = "returned"
   /\ op = "CSSDeclaration::parse"
   /\ written # <<>>
   /\ written[1].tail \in {<<>>, <<";">>})
    => (res.ok /\ res.rest = <<>>)

\* C20 as amended: Declaration.parse leaves a ';' that directly follows
\* the declaration at the start of its remainder; it is the list parser
\* that consumes that one ';'.  Without a ';' both succeed with the empty
\* remainder.
C20_SemicolonLeftToList ==
  (/\ pc = "returned"
   /\ written # <<>>
   /\ written[1].tail \in {<<>>, <<";">>})
    => /\ op = "CSSDeclaration::parse" =>
            (/\ res.ok
             /\ res.out.name = written[1].name
             /\ res.rest = written[1].tail)
       /\ op = "CSSDeclarationList::parse" =>
            (/\ res.ok
             /\ Len(res.out.declarations) = 1
             /\ res.out.declarations[1].name = written[1].name
             /\ res.rest = <<>>)

\* C20 witness: a declaration with the importance marker directly followed
\* by ';' was parsed by Declaration.parse.
C20_Witness ==
  /\ pc = "returned"
  /\ op = "CSSDeclaration::parse"
  /\ written # <<>>
  /\ written[1].marker
  /\ written[1].tail = <<";">>
  /\ res.ok
  /\ res.rest = <<";">>

\* The canonical texts, written as the formats they are claimed to be.
CanonicalDeclaration(d) ==
  d.name \o <<":", " ">> \o d.value
    \o (IF d.important
          THEN <<" ", "!", "i", "m", "p", "o", "r", "t", "a", "n", "t">>
          ELSE <<>>)
    \o <<";">>

\* The texts ts with exactly one space between each two neighbours.
SpaceSeparated(ts) ==
  Flatten([i \in 1..Len(ts) |-> IF i = 1 THEN ts[i] ELSE <<" ">> \o ts[i]])

CanonicalList(l) ==
  SpaceSeparated([i \in 1..Len(l.declarations) |->
                    CanonicalDeclaration(l.declarations[i])])

CanonicalRule(r) ==
  r.selector \o <<" ", "{", " ">> \o CanonicalList(r.declarations) \o <<" ", "}">>

CanonicalSheet(sh) ==
  SpaceSeparated([i \in 1..Len(sh.rules) |-> CanonicalRule(sh.rules[i])])

C15_RemoveByName ==
  (pc = "removed" /\ op \in ListOps) =>
    LET before == res.out.declarations
        names == {removed[j] : j \in 1..Len(removed)}
        kept == SelectSeq(before, LAMBDA d : d.name \notin names)
    IN  /\ obj.declarations = kept
        /\ \A i \in 1..Len(obj.declarations) : obj.declarations[i].name \notin names
        /\ (\A i \in 1..Len(before) : before[i].name \notin names)
             => obj.declarations = before

\* C15 witness: a name that two declarations of the list bear was removed
\* and a declaration of another name is left.
C15_Witness ==
  /\ pc = "removed"
  /\ op \in ListOps
  /\ Len(res.out.declarations) = 3
  /\ Len(obj.declarations) = 1
  /\ removed = <<(<<"a">>)>>

\* C16: the list parser returns the declarations of the text in their
\* order: the i-th of the list is the i-th written, and those of one name
\* are all there, each with its value and its flag.
C16_SourceOrder ==
  (/\ pc = "returned"
   /\ op = "CSSDeclarationList::parse"
   /\ written # <<>>
   /\ written[1].kind = "list"
   /\ written[1].bad = <<>>)
    => /\ res.ok
       /\ Len(res.out.declarations) = Len(written[1].declarations)
       /\ \A i \in 1..Len(written[1].declarations) :
            res.out.declarations[i] = written[1].declarations[i]

\* C16 witness: a text with two declarations of one name that differ in
\* value and flag, and another between them, was parsed.
C16_Witness ==
  /\ pc = "returned"
  /\ op = "CSSDeclarationList::parse"
  /\ written # <<>>
  /\ written[1].bad = <<>>
  /\ written[1].declarations = <<Plain, Marked, Again>>
  /\ res.ok
  /\ Len(res.out.declarations) = 3

\* C17: the rule made by Rule.new("h1", list), the list parsed from
\* "padding: 1em", prints as "h1 { padding: 1em }".
C17_DocExample ==
  (/\ pc = "printed"
   /\ op = "CSSRule::new"
   /\ input = <<"p", "a", "d", "d", "i", "n", "g", ":", " ", "1", "e", "m">>
   /\ obj.selector = <<"h", "1">>)
    => text = <<"h", "1", " ", "{", " ", "p", "a", "d", "d", "i", "n", "g", ":",
                " ", "1", "e", "m", " ", "}">>

\* C18: with a malformed declaration before the closing '}', the list
\* parser returns without error the declarations before it and, after
\* whitespace, the text from the malformed declaration on as remainder;
\* the rule parser fails on a rule with such a block.
C18_MalformedInBlock ==
  (pc = "returned" /\ written # <<>> /\ written[1].bad # <<>>) =>
    /\ (op = "CSSDeclarationList::parse" /\ written[1].kind = "list") =>
         (/\ res.ok
          /\ res.out.declarations = written[1].declarations
          /\ SkipSpace(res.rest) = written[1].bad \o written[1].close)
    /\ (op = "CSSRule::parse" /\ written[1].kind = "rule") =>
         (~res.ok /\ res.code = UnterminatedBlock)

\* The same, leaving out the value that is a form feed and the important
\* declaration with whitespace before the ';' that follows it.
C18_MalformedInBlock_Elsewhere ==
  (/\ pc = "returned"
   /\ written # <<>>
   /\ written[1].bad \notin {<<>>, <<"x", ":", "FF">>}
   /\ ~(/\ written[1].layout = "spaced"
        /\ written[1].declarations # <<>>
        /\ written[1].declarations[Len(written[1].declarations)].important))
    => /\ (op = "CSSDeclarationList::parse" /\ written[1].kind = "list") =>
            (/\ res.ok
             /\ res.out.declarations = written[1].declarations
             /\ SkipSpace(res.rest) = written[1].bad \o written[1].close)
       /\ (op = "CSSRule::parse" /\ written[1].kind = "rule") =>
            (~res.ok /\ res.code = UnterminatedBlock)

\* The same, for the rule parser's failure alone and every value but the
\* form feed.
C18_RuleFails ==
  (/\ pc = "returned"
   /\ op = "CSSRule::parse"
   /\ written # <<>>
   /\ written[1].kind = "rule"
   /\ written[1].bad \notin {<<>>, <<"x", ":", "FF">>})
    => (~res.ok /\ res.code = UnterminatedBlock)

\* The input left after i items of a declaration list have been parsed
\* from s, one at a time.
RECURSIVE AfterItems(_, _)
AfterItems(s, i) ==
  IF i = 0 THEN s ELSE list_item(AfterItems(s, i - 1)).rest

\* C19: the loops of the list parser and of the stylesheet parser end on
\* every text.  Each round that succeeds leaves strictly less input than
\* it was given, the round after the last one fails and ends the loop
\* there, no loop is cut off for want of progress, and the rounds that
\* succeed are at most as many as the text has characters.
C19_ForwardProgress ==
  /\ (pc = "returned" /\ op = "CSSDeclarationList::parse") =>
       /\ res.ok
       /\ Len(res.out.declarations) <= Len(input)
       /\ \A i \in 1..Len(res.out.declarations) :
            /\ list_item(AfterItems(input, i - 1)).ok
            /\ Len(AfterItems(input, i)) < Len(AfterItems(input, i - 1))
       /\ ~list_item(AfterItems(input, Len(res.out.declarations))).ok
       /\ res.rest = AfterItems(input, Len(res.out.declarations))
  /\ (pc = "returned" /\ op = "Stylesheet::parse") =>
       /\ res.ok
       /\ Len(res.out.rules) <= Len(input)
       /\ \A i \in 1..Len(res.out.rules) :
            /\ CSSRule_parse(AfterRules(input, i - 1)).ok
            /\ Len(AfterRules(input, i)) < Len(AfterRules(input, i - 1))
       /\ ~CSSRule_parse(AfterRules(input, Len(res.out.rules))).ok
       /\ res.rest = AfterRules(input, Len(res.out.rules))

\* C19 witness: the list loop made two rounds and stopped before the end
\* of the text.
C19_Witness ==
  /\ pc = "returned"
  /\ op = "CSSDeclarationList::parse"
  /\ res.ok
  /\ Len(res.out.declarations) = 2
  /\ res.rest # <<>>

\* Every rule of a structure of the layer that o parses.
RulesOf(o, x) ==
  CASE o = "CSSRule::parse" -> <<x>>
    [] o = "Stylesheet::parse" -> x.rules
    [] OTHER -> <<>>

\* A text that neither starts nor ends with a whitespace character.
IsTrimmed(s) ==
  s # <<>> => (~is_whitespace(s[1]) /\ ~is_whitespace(s[Len(s)]))

\* C21: in every structure that a parser of any layer returns, each
\* declaration's name is an identifier, each value neither starts nor
\* ends with whitespace and has none of ';', '{', '}', '!', and each
\* rule's selector neither starts nor ends with whitespace and has no '{'.
C21_CanonicalStructures ==
  (pc = "returned" /\ op \in Parsers /\ res.ok) =>
    /\ \A i \in 1..Len(DeclarationsOf(op, res.out)) :
         /\ IsIdentifier(DeclarationsOf(op, res.out)[i].name)
         /\ IsTrimmed(DeclarationsOf(op, res.out)[i].value)
         /\ \A c \in {";", "{", "}", "!"} :
              ~Contains(DeclarationsOf(op, res.out)[i].value, c)
    /\ \A i \in 1..Len(RulesOf(op, res.out)) :
         /\ IsTrimmed(RulesOf(op, res.out)[i].selector)
         /\ ~Contains(RulesOf(op, res.out)[i].selector, "{")

\* C21 witness: a rule was parsed from a text with a space between the
\* value of its declaration and the '}'.
C21_Witness ==
  /\ pc = "returned"
  /\ op = "CSSRule::parse"
  /\ res.ok
  /\ Len(input) = 6
  /\ input[5] = " "
  /\ Len(res.out.declarations.declarations) = 1
  /\ res.out.declarations.declarations[1].value = <<"b">>

\* C22: when rule parsing succeeds the block runs from the first '{' to
\* the first '}' after it, with no '{' between them; that '}' is the last
\* character consumed, and the rule is the one parsed from the text up to
\* it, so nothing after it is in a name or a value.  A '{' inside the
\* block makes rule parsing fail.
C22_BlockBraces ==
  (pc = "returned" /\ op = "CSSRule::parse") =>
    LET open == IndexFrom(input, "{", 1)
        close == IndexFrom(input, "}", open + 1)
        nested == IndexFrom(input, "{", open + 1)
    IN  /\ res.ok =>
              /\ open > 0
              /\ close > open
              /\ \A j \in (open + 1)..(close - 1) : input[j] \notin {"{", "}"}
              /\ Len(res.rest) = Len(input) - close
              /\ res.rest = Drop(input, close)
              /\ \A i \in 1..Len(res.out.declarations.declarations) :
                   Len(res.out.declarations.declarations[i].name)
                     + Len(res.out.declarations.declarations[i].value)
                     < close - open
              /\ CSSRule_parse(Take(input, close)).out = res.out
        /\ (open > 0 /\ nested > 0 /\ (close = 0 \/ nested < close)) => ~res.ok

\* C22 witness: a rule was parsed and the text after its '}' holds another
\* declaration.
C22_Witness ==
  /\ pc = "returned"
  /\ op = "CSSRule::parse"
  /\ res.ok
  /\ Len(res.out.declarations.declarations) = 1
  /\ res.rest = <<"a", ":", "b">>

\* s is what is left of t after some of its first characters.
IsSuffix(s, t) == Len(s) <= Len(t) /\ s = Drop(t, Len(t) - Len(s))

\* C23: the remainder of the list parser is a suffix of the text, and the
\* list parser applied to that remainder returns the empty list and the
\* same remainder.
C23_RemainderStable ==
  /\ (pc = "returned" /\ op = "CSSDeclarationList::parse") =>
       (res.ok /\ IsSuffix(res.rest, input))
  /\ (pc = "continued" /\ op = "CSSDeclarationList::parse") =>
       /\ IsSuffix(res.rest, input)
       /\ res2.ok
       /\ res2.out.declarations = <<>>
       /\ res2.rest = res.rest

\* C23 witness: the list parser returned a declaration and a remainder
\* that is not empty, and was applied to that remainder.
C23_Witness ==
  /\ pc = "continued"
  /\ op = "CSSDeclarationList::parse"
  /\ Len(res.out.declarations) >= 1
  /\ res.rest # <<>>
  /\ res2.ok
  /\ res2.rest = res.rest

\* The from_string constructors.
Constructors ==
  {"CSSDeclaration::from_string", "CSSDeclarationList::from_string",
   "CSSRule::from_string", "Stylesheet::from_string"}

C24_LiteralKeyword ==
  (pc = "returned" /\ op = "CSSDeclaration::parse" /\ written # <<>>) =>
    /\ res.ok
    /\ res.out.important = written[1].marker
    /\ written[1].marker => res.rest = written[1].tail
    /\ written[1].tail = <<"x">> =>
         (res.out.important => res.rest = <<"x">>)
    /\ (~written[1].marker /\ written[1].tail # <<>> /\ written[1].tail[1] = "!") =>
         (/\ ~res.out.important
          /\ res.out.value = written[1].value
          /\ res.rest = written[1].tail)

\* C24 witness: a marker directly followed by 'x' was parsed.
C24_Witness ==
  /\ pc = "returned"
  /\ op = "CSSDeclaration::parse"
  /\ written # <<>>
  /\ written[1].marker
  /\ written[1].tail = <<"x">>
  /\ res.ok
  /\ res.out.important
  /\ res.rest = <<"x">>

====
